---- MODULE Spec2Model ----
\* Model of src/hierarchiconf/__init__.py: the hierarchical configuration
\* (selector grammar, matcher, specificity resolution, views on a shared dict).
\*
\* Representation.  A Python str is a sequence of tokens.  A token is the
\* separator "/" or a word: a maximal run of non-slash characters, spelled out
\* by WordChars.  Selector parts, path parts, dict keys and segments are all
\* such strings, as in the source; the wildcard segment is the string "//".
EXTENDS Integers, Sequences, FiniteSets, TLC

VARIABLES dicts, views, last, call

vars == <<dicts, views, last, call>>

\* ------------------------------------------------------------------ bounds

\* Most entries one dict holds.
MaxEntries == 2
\* Longest selector (in segments) and longest path handed to _match directly.
MaxSelLen == 3
MaxPathLen == 4
\* Most Conf objects (roots and views) alive at once where nested
\* configurations are built.
MaxObjs == 3
\* Longest selector str (in tokens) handed to the split and join functions.
MaxStrLen == 5

\* ------------------------------------------------------------------ strings

Slash == "/"

\* The characters of each word of the model's alphabet.
WordChars(w) ==
    CASE w = "a"        -> <<"a">>
      [] w = "ab"       -> <<"a", "b">>
      [] w = "b"        -> <<"b">>
      [] w = "x"        -> <<"x">>
      [] w = "name"     -> <<"n", "a", "m", "e">>
      [] w = "location" -> <<"l", "o", "c", "a", "t", "i", "o", "n">>
      [] w = ".*"       -> <<".", "*">>
      [] w = "x\n"      -> <<"x", "\n">>
      [] w = "a|ab"     -> <<"a", "|", "a", "b">>
      [] w = "/"        -> <<"/">>

\* Characters \w of the regular expressions (the letters the alphabet uses).
WordCharSet == {"a", "b", "x", "n", "m", "e", "l", "o", "c", "t", "i"}

\* ord(c), for the str comparison of list.sort.
Ord(c) ==
    CASE c = "\n" -> 10 [] c = "*" -> 42 [] c = "." -> 46 [] c = "/" -> 47
      [] c = "a" -> 97 [] c = "b" -> 98 [] c = "c" -> 99 [] c = "e" -> 101
      [] c = "i" -> 105 [] c = "l" -> 108 [] c = "m" -> 109 [] c = "n" -> 110
      [] c = "o" -> 111 [] c = "t" -> 116 [] c = "x" -> 120 [] c = "|" -> 124

RECURSIVE Chars(_)
\* The characters of a str.
Chars(s) == IF s = <<>> THEN <<>> ELSE WordChars(Head(s)) \o Chars(Tail(s))

\* len(s)
StrLen(s) == Len(Chars(s))

IsPrefixSeq(p, s) == Len(p) <= Len(s) /\ SubSeq(s, 1, Len(p)) = p

\* s.find(sub) > -1 on characters
ContainsSeq(s, sub) ==
    \E i \in 1..(Len(s) - Len(sub) + 1) : SubSeq(s, i, i + Len(sub) - 1) = sub

\* s.endswith(suffix) on characters
EndsWithSeq(s, suf) ==
    Len(suf) <= Len(s) /\ SubSeq(s, Len(s) - Len(suf) + 1, Len(s)) = suf

RECURSIVE LexLess(_, _)
\* Python 2 str (byte-wise) '<' on character sequences.
LexLess(s, t) ==
    IF t = <<>> THEN FALSE
    ELSE IF s = <<>> THEN TRUE
    ELSE IF Ord(Head(s)) # Ord(Head(t)) THEN Ord(Head(s)) < Ord(Head(t))
    ELSE LexLess(Tail(s), Tail(t))

StrLess(s, t) == LexLess(Chars(s), Chars(t))

Wildcard == <<Slash, Slash>>

\* ------------------------------------------------------------------ regexps

RECURSIVE DotStarEnd(_)
\* How far '.*' runs over the characters c: '.' matches all but a newline.
DotStarEnd(c) ==
    IF c = <<>> \/ Head(c) = "\n" THEN 0 ELSE 1 + DotStarEnd(Tail(c))

\* re.match(pattern, s).end() for a one-word pattern, -1 when re.match
\* returns None.  ".*" consumes the segment up to a newline; "a|ab" takes
\* the first alternative that is found at the start of s; any other word of
\* the alphabet is a literal, which re.match finds as a prefix of s.
ReMatchEnd(pattern, s) ==
    IF pattern = <<".*">> THEN DotStarEnd(Chars(s))
    ELSE IF pattern = <<"a|ab">> THEN
        IF IsPrefixSeq(<<"a">>, Chars(s)) THEN 1
        ELSE IF IsPrefixSeq(<<"a", "b">>, Chars(s)) THEN 2
        ELSE -1
    ELSE IF IsPrefixSeq(Chars(pattern), Chars(s)) THEN StrLen(pattern)
    ELSE -1

\* is_match and is_match.end() == len(s)
FullReMatch(pattern, s) == ReMatchEnd(pattern, s) = StrLen(s)

\* re.match('^/[^/]', sp), c the characters of sp
first_single_slash(c) ==
    Len(c) >= 2 /\ c[1] = "/" /\ c[2] # "/"

\* re.match('[^/]/$', sp): re.match anchors the pattern at the start of sp,
\* and '$' is the end of sp or the place before a newline that ends sp.
last_single_slash(c) ==
    /\ Len(c) \in {2, 3}
    /\ c[1] # "/"
    /\ c[2] = "/"
    /\ Len(c) = 3 => c[3] = "\n"

RECURSIVE IsIdentChain(_, _)
\* '^[^\d\W]\w*(?:/[^\d\W]\w*)*$' on the characters c; inWord says whether the
\* previous character belongs to an identifier.  '$' is the end of the str or
\* the place before a newline that ends it.
IsIdentChain(c, inWord) ==
    IF c = <<>> \/ c = <<"\n">> THEN inWord
    ELSE IF Head(c) \in WordCharSet THEN IsIdentChain(Tail(c), TRUE)
    ELSE IF Head(c) = "/" /\ inWord THEN IsIdentChain(Tail(c), FALSE)
    ELSE FALSE

valid_path(pp) == IsIdentChain(Chars(pp), FALSE)

\* The body of the loop of check_valid_selectors for one element whose
\* characters are c: TRUE when it does not raise.
selector_element_ok(c) ==
    /\ c # <<>>
    /\ ~first_single_slash(c)
    /\ ~last_single_slash(c)
    /\ ~ContainsSeq(c, <<"/", "/", "/">>)

\* check_valid_selectors on a list of parts: TRUE when no part raises.
check_valid_selectors(selector_parts) ==
    \A i \in 1..Len(selector_parts) : selector_element_ok(Chars(selector_parts[i]))

\* check_valid_selectors handed one str (Conf._match, Conf.update): the loop
\* then runs over the characters of the str, each a one-character element.
check_valid_selectors_str(selector) ==
    LET c == Chars(selector) IN
    \A i \in 1..Len(c) : selector_element_ok(<<c[i]>>)

\* check_valid_paths: TRUE when no part raises.
check_valid_paths(path_parts) ==
    \A i \in 1..Len(path_parts) :
        path_parts[i] # <<>> /\ valid_path(path_parts[i])

RECURSIVE JoinSlash(_)
\* '/'.join(parts)
JoinSlash(parts) ==
    IF parts = <<>> THEN <<>>
    ELSE IF Len(parts) = 1 THEN parts[1]
    ELSE parts[1] \o <<Slash>> \o JoinSlash(Tail(parts))

RECURSIVE CollapseSlashes(_)
\* re.sub('//+', '//', s): every run of two or more slashes becomes two.
CollapseSlashes(s) ==
    IF Len(s) >= 3 /\ s[1] = Slash /\ s[2] = Slash /\ s[3] = Slash
    THEN CollapseSlashes(Tail(s))
    ELSE IF s = <<>> THEN <<>>
    ELSE <<Head(s)>> \o CollapseSlashes(Tail(s))

\* Mutant of selector_path_join_valid: the runs of slashes that joining
\* makes around a wildcard are kept.
selector_path_join_uncollapsed(key_or_path_parts) == JoinSlash(key_or_path_parts)

\* _selector_path_join_valid(*key_or_path_parts)
selector_path_join_valid(key_or_path_parts) ==
    CollapseSlashes(JoinSlash(key_or_path_parts))

RECURSIVE SplitSlash(_, _)
\* p.split('/'): the pieces between slashes, empty pieces included; cur is the
\* piece being read.
SplitSlash(s, cur) ==
    IF s = <<>> THEN <<cur>>
    ELSE IF Head(s) = Slash THEN <<cur>> \o SplitSlash(Tail(s), <<>>)
    ELSE SplitSlash(Tail(s), Append(cur, Head(s)))

RECURSIVE TempParts(_)
\* sum((p.split('/') for p in path_or_segments), [])
TempParts(path_or_segments) ==
    IF path_or_segments = <<>> THEN <<>>
    ELSE SplitSlash(Head(path_or_segments), <<>>) \o TempParts(Tail(path_or_segments))

RECURSIVE CoalesceParts(_, _)
\* The loop of _split_to_parts_valid over temp_parts, parts starting as [''].
CoalesceParts(temp_parts, parts) ==
    IF temp_parts = <<>> THEN parts
    ELSE LET p == Head(temp_parts) IN
         IF p # <<>> THEN CoalesceParts(Tail(temp_parts), Append(parts, p))
         ELSE IF parts[Len(parts)] # Wildcard
              THEN CoalesceParts(Tail(temp_parts), Append(parts, Wildcard))
              ELSE CoalesceParts(Tail(temp_parts), parts)

split_to_parts_valid(path_or_segments) ==
    Tail(CoalesceParts(TempParts(path_or_segments), << <<>> >>))

\* ------------------------------------------------------------------ matcher

\* Entry._base_specificity
base_specificity == <<0, 0>>

NoParts == <<>>

\* Mutant of MatchPrefix: the head of the selector is left out of what
\* remains.
MatchPrefixTail(selector_parts, specificity) ==
    [kind |-> "prefix", spec |-> specificity,
     rest |-> IF selector_parts = <<>> THEN <<>> ELSE Tail(selector_parts)]

\* The three shapes _match returns, and the failed assert.
MatchNone == [kind |-> "None", spec |-> base_specificity, rest |-> NoParts]
MatchSpec(specificity) == [kind |-> "spec", spec |-> specificity, rest |-> NoParts]
MatchPrefix(selector_parts, specificity) ==
    [kind |-> "prefix", spec |-> specificity, rest |-> selector_parts]
MatchAssert == [kind |-> "AssertionError", spec |-> base_specificity, rest |-> NoParts]

\* Mutant of skip_hits: the wildcard must span at least one segment.
skip_hits_from_one(tail_head, path_parts) ==
    {k \in 1..(Len(path_parts) - 1) : FullReMatch(tail_head, path_parts[k + 1])}

\* The path indices (skipped_levels) at which the segment after the wildcard
\* fully matches the path segment.
skip_hits(tail_head, path_parts) ==
    {k \in 0..(Len(path_parts) - 1) : FullReMatch(tail_head, path_parts[k + 1])}

\* Mutant of first_skip: a greedy wildcard, stopping at the last hit.
last_skip(tail_head, path_parts) ==
    LET hits == {k \in 0..(Len(path_parts) - 1) :
                    FullReMatch(tail_head, path_parts[k + 1])} IN
    IF hits = {} THEN -1
    ELSE CHOOSE k \in hits : \A j \in hits : k >= j

\* The for loop of the wildcard branch returns at the first hit: the
\* skipped_levels it returns at, -1 when it runs to its end.
first_skip(tail_head, path_parts) ==
    LET hits == skip_hits(tail_head, path_parts) IN
    IF hits = {} THEN -1
    ELSE CHOOSE k \in hits : \A j \in hits : k <= j

\* new_specificity after a head match
bump_specificity(specificity, selector_head, path_head) ==
    IF selector_head = path_head
    THEN <<specificity[1] + 1, specificity[2]>>
    ELSE <<specificity[1], specificity[2] + 1>>

RECURSIVE match(_, _, _, _)
\* _match(selector_parts, path_parts, specificity, do_prefix_match)
match(selector_parts, path_parts, specificity, do_prefix_match) ==
    IF path_parts = <<>> THEN
        IF do_prefix_match THEN MatchPrefix(selector_parts, specificity)
        ELSE IF selector_parts = <<>> THEN MatchSpec(specificity)
        ELSE MatchNone
    ELSE IF selector_parts = <<>> THEN MatchNone
    ELSE LET selector_head == Head(selector_parts)
             selector_tail == Tail(selector_parts) IN
        IF selector_head = Wildcard THEN
            IF selector_tail = <<>> THEN MatchAssert
            ELSE LET skipped_levels == first_skip(Head(selector_tail), path_parts) IN
                IF skipped_levels >= 0
                THEN match(selector_tail,
                           SubSeq(path_parts, skipped_levels + 1, Len(path_parts)),
                           specificity, do_prefix_match)
                ELSE IF do_prefix_match THEN MatchPrefix(selector_parts, specificity)
                ELSE MatchNone
        ELSE IF FullReMatch(selector_head, Head(path_parts))
        THEN match(selector_tail, Tail(path_parts),
                   bump_specificity(specificity, selector_head, Head(path_parts)),
                   do_prefix_match)
        ELSE MatchNone

\* Conf._match(selector, path_parts, specificity, do_prefix_match)
Conf_match(selector, path_parts, specificity, do_prefix_match) ==
    IF ~check_valid_selectors_str(selector)
    THEN [kind |-> "Exception", spec |-> base_specificity, rest |-> NoParts]
    ELSE match(split_to_parts_valid(<<selector>>), path_parts, specificity,
               do_prefix_match)

\* Mutant of SpecGreater: '>=' in place of '>'.
SpecGreaterOrEqual(s1, s2) == s1[1] > s2[1] \/ (s1[1] = s2[1] /\ s1[2] >= s2[2])

\* Mutant of SpecGreater: the pattern count compared first.
SpecGreaterPatternFirst(s1, s2) == s1[2] > s2[2] \/ (s1[2] = s2[2] /\ s1[1] > s2[1])

\* list '>' on two specificities
SpecGreater(s1, s2) == s1[1] > s2[1] \/ (s1[1] = s2[1] /\ s1[2] > s2[2])

\* ------------------------------------------------------------------ Conf

\* Plain (non-Conf) values.
Values == {"v1", "v2"}

\* {}
EmptyDict == <<>>

NoStr == <<>>
NoNames == <<>>

\* What a call gives back: the value returned (kind "value": a stored value;
\* kind "str": the str of a special selector; kind "ok": None) or the
\* exception raised.
Result(kind, value, str, names, spec) ==
    [kind |-> kind, value |-> value, str |-> str, names |-> names, spec |-> spec]

Returned(value) == Result("value", value, NoStr, NoNames, base_specificity)
ReturnedStr(str) == Result("str", "", str, NoNames, base_specificity)
Raised(kind) == Result(kind, "", NoStr, NoNames, base_specificity)
\* KeyError(path)
KeyNotFound(path) == Result("KeyError", "", path, NoNames, base_specificity)
\* AmbiguousSpecificity: the tied selectors, the path and the specificity
AmbiguousSpecificity(names, path, spec) == Result("AmbiguousSpecificity", "", path, names, spec)
Done == Result("ok", "", NoStr, NoNames, base_specificity)

\* Conf._special_selectors: the keys
special_selectors == {<<"name">>, <<"location">>}

\* Conf._special_selectors[key](self)
special_value(key, location) ==
    IF key = <<"name">>
    THEN IF location = <<>> THEN Raised("IndexError")
         ELSE ReturnedStr(location[Len(location)])
    ELSE ReturnedStr(selector_path_join_valid(location))

\* Mutant of get_path_parts: the location of the view is not prepended.
get_path_parts_no_location(location, path) ==
    IF check_valid_paths(path)
    THEN [ok |-> TRUE, parts |-> split_to_parts_valid(path)]
    ELSE [ok |-> FALSE, parts |-> NoParts]

\* Conf._get_path_parts: ok is FALSE when check_valid_paths raises.
get_path_parts(location, path) ==
    LET p == location \o path IN
    IF check_valid_paths(p)
    THEN [ok |-> TRUE, parts |-> split_to_parts_valid(p)]
    ELSE [ok |-> FALSE, parts |-> NoParts]

\* Mutant of get_path_parts_self_location: the path is appended to the list
\* of the receiver itself.
get_path_parts_extends_location(location, path) == location \o path

\* self._location after Conf._get_path_parts, whether it raised or not: the
\* path is appended to a copy, list(self._location).
get_path_parts_self_location(location, path) == location

\* Conf._get_selector_parts: ok is FALSE when check_valid_selectors raises.
get_selector_parts(location, selector) ==
    LET p == location \o selector IN
    IF check_valid_selectors(p)
    THEN [ok |-> TRUE, parts |-> split_to_parts_valid(p)]
    ELSE [ok |-> FALSE, parts |-> NoParts]

\* The orders in which iteritems() may run over the dict d.
IterOrders(d) ==
    {o \in [1..Cardinality(DOMAIN d) -> DOMAIN d] :
        \A i, j \in DOMAIN o : i # j => o[i] # o[j]}

RECURSIVE collect_matches(_, _, _)
\* The loop of __getitem__ over the dict, in iteration order: the list matches.
collect_matches(d, order, path_parts) ==
    IF order = <<>> THEN <<>>
    ELSE LET selector == Head(order)
             m == Conf_match(selector, path_parts, base_specificity, FALSE)
             rest == collect_matches(d, Tail(order), path_parts) IN
         IF m.kind = "spec"
         THEN <<[spec |-> m.spec, selector |-> selector, entry |-> d[selector]]>> \o rest
         ELSE rest

\* tuple '>' on two elements of matches (the selectors of a dict differ, so
\* the entries are never compared)
MatchGreater(m1, m2) ==
    \/ SpecGreater(m1.spec, m2.spec)
    \/ m1.spec = m2.spec /\ StrLess(m2.selector, m1.selector)

RECURSIVE InsertSorted(_, _)
InsertSorted(m, sorted) ==
    IF sorted = <<>> THEN <<m>>
    ELSE IF MatchGreater(m, Head(sorted)) THEN <<m>> \o sorted
    ELSE <<Head(sorted)>> \o InsertSorted(m, Tail(sorted))

\* Mutant of SortReverse: the list is left in iteration order.
SortNone(matches) == matches

RECURSIVE SortReverse(_)
\* matches.sort(reverse=True)
SortReverse(matches) ==
    IF matches = <<>> THEN <<>>
    ELSE InsertSorted(Head(matches), SortReverse(Tail(matches)))

RECURSIVE tied_selectors(_, _)
\* [m[1] for m in matches if m[0] == matches[0][0]]
tied_selectors(matches, top) ==
    IF matches = <<>> THEN <<>>
    ELSE (IF Head(matches).spec = top THEN <<Head(matches).selector>> ELSE <<>>)
         \o tied_selectors(Tail(matches), top)

\* __getitem__ from "matches = []" on.
resolve(d, order, path_parts) ==
    LET found == collect_matches(d, order, path_parts) IN
    IF found = <<>> THEN KeyNotFound(selector_path_join_valid(path_parts))
    ELSE IF Len(found) = 1 THEN Returned(found[1].entry)
    ELSE LET matches == SortReverse(found) IN
         IF SpecGreater(matches[1].spec, matches[2].spec)
         THEN Returned(matches[1].entry)
         ELSE AmbiguousSpecificity(tied_selectors(matches, matches[1].spec),
                                   selector_path_join_valid(path_parts),
                                   matches[1].spec)

\* Mutant of subconf_location: only the first name is used.
subconf_location_first_name(location, name) ==
    LET np == get_path_parts(location, <<Head(name)>>) IN
    IF ~np.ok \/ ~check_valid_paths(np.parts)
    THEN [ok |-> FALSE, parts |-> NoParts]
    ELSE [ok |-> TRUE, parts |-> split_to_parts_valid(np.parts)]

\* Conf.subconf(*name) seen from the caller: the location of the view it
\* returns (Conf.__init__ validates and splits name_parts again).
subconf_location(location, name) ==
    LET np == get_path_parts(location, name) IN
    IF ~np.ok \/ ~check_valid_paths(np.parts)
    THEN [ok |-> FALSE, parts |-> NoParts]
    ELSE [ok |-> TRUE, parts |-> split_to_parts_valid(np.parts)]

\* Mutant of getitem: no special case for 'name' and 'location'.
getitem_no_special(location, d, order, path) ==
    LET pp == get_path_parts(location, path) IN
    IF ~pp.ok THEN Raised("InvalidPath")
    ELSE IF pp.parts = <<>> THEN Raised("IndexError")
    ELSE resolve(d, order, pp.parts)

\* Conf.__getitem__(path) on a view at location, its store being d, with
\* iteritems() running in the given order.
getitem(location, d, order, path) ==
    LET pp == get_path_parts(location, path) IN
    IF ~pp.ok THEN Raised("InvalidPath")
    ELSE IF pp.parts = <<>> THEN Raised("IndexError")
    ELSE LET path_parts == pp.parts
             lastpart == path_parts[Len(path_parts)] IN
         IF lastpart \in special_selectors THEN
             IF Len(path_parts) = 1 + Len(location)
             THEN special_value(lastpart, location)
             ELSE LET sub == subconf_location(location,
                                 SubSeq(path_parts, 1, Len(path_parts) - 1)) IN
                  IF ~sub.ok THEN Raised("InvalidPath")
                  ELSE special_value(lastpart, sub.parts)
         ELSE resolve(d, order, path_parts)

\* Mutant of get_or_default: every exception of __getitem__ is swallowed.
get_or_default_any_error(r, default) ==
    IF r.kind \in {"KeyError", "AmbiguousSpecificity"} THEN Returned(default) ELSE r

\* The try/except of Conf.get around the outcome r of __getitem__: a KeyError
\* becomes the default, everything else passes.
get_or_default(r, default) ==
    IF r.kind = "KeyError" THEN Returned(default) ELSE r

\* Conf.get(path, default)
get(location, d, order, path, default) ==
    get_or_default(getitem(location, d, order, path), default)

\* d[s] = value
DictSet(d, s, value) ==
    [k \in (DOMAIN d) \cup {s} |-> IF k = s THEN value ELSE d[k]]

\* Mutant of setitem: the special selectors can be set.
setitem_no_special(location, selector, value) ==
    LET sp == get_selector_parts(location, selector) IN
    IF ~sp.ok THEN [res |-> Raised("InvalidSelector"), key |-> NoStr]
    ELSE IF sp.parts = <<>> THEN [res |-> Raised("IndexError"), key |-> NoStr]
    ELSE LET s == selector_path_join_valid(sp.parts) IN
         IF EndsWithSeq(Chars(s), <<"/", "/">>)
         THEN [res |-> Raised("WildcardEnd"), key |-> NoStr]
         ELSE [res |-> Done, key |-> s]

\* Mutant of setitem: a plain value can be set on a selector that ends in the
\* wildcard.
setitem_no_wildcard_check(location, selector, value) ==
    LET sp == get_selector_parts(location, selector) IN
    IF ~sp.ok THEN [res |-> Raised("InvalidSelector"), key |-> NoStr]
    ELSE IF sp.parts = <<>> THEN [res |-> Raised("IndexError"), key |-> NoStr]
    ELSE IF sp.parts[Len(sp.parts)] \in special_selectors
    THEN [res |-> Raised("SpecialSelector"), key |-> NoStr]
    ELSE [res |-> Done, key |-> selector_path_join_valid(sp.parts)]

\* Conf.__setitem__(selector, value) for a plain value: the exception raised,
\* or the key written.
setitem(location, selector, value) ==
    LET sp == get_selector_parts(location, selector) IN
    IF ~sp.ok THEN [res |-> Raised("InvalidSelector"), key |-> NoStr]
    ELSE IF sp.parts = <<>> THEN [res |-> Raised("IndexError"), key |-> NoStr]
    ELSE LET s == selector_path_join_valid(sp.parts) IN
         IF sp.parts[Len(sp.parts)] \in special_selectors
         THEN [res |-> Raised("SpecialSelector"), key |-> NoStr]
         ELSE IF EndsWithSeq(Chars(s), <<"/", "/">>)
         THEN [res |-> Raised("WildcardEnd"), key |-> NoStr]
         ELSE [res |-> Done, key |-> s]

\* Mutant of conf_init_reuse: the new object gets a copy of the dict.
conf_init_copy(heap, id) == [heap |-> Append(heap, heap[id]), id |-> Len(heap) + 1]

\* Conf.__init__(conf_dict, location, _reuse_conf_dict=True): the new object
\* keeps a reference to the caller's dict.  Gives the heap of dicts and the
\* dict the new view refers to.
conf_init_reuse(heap, id) == [heap |-> heap, id |-> id]

RECURSIVE iter_location_restricted_entries(_, _, _)
\* Conf._iter_location_restricted_entries run to its end over the dict d in
\* the given order: the pairs yielded, and the exception that ended it if one
\* did (unpacking the None that _match returns is a TypeError).
iter_location_restricted_entries(d, location, order) ==
    IF order = <<>> THEN [res |-> Done, items |-> <<>>]
    ELSE LET selector == Head(order)
             m == Conf_match(selector, location, base_specificity, TRUE) IN
         IF m.kind = "None" THEN [res |-> Raised("TypeError"), items |-> <<>>]
         ELSE IF m.kind # "prefix" THEN [res |-> Raised(m.kind), items |-> <<>>]
         ELSE LET rest == iter_location_restricted_entries(d, location, Tail(order)) IN
              [res |-> rest.res,
               items |-> <<[suffix |-> selector_path_join_valid(m.rest),
                            entry |-> d[selector]]>> \o rest.items]

\* Mutant of splice_key: the selector the nested configuration was set on
\* is left out of the key of a spliced entry.
splice_key_unprefixed(location, s, sub_selector, sub_value) ==
    setitem(location, <<sub_selector>>, sub_value)

\* self[s, sub_selector] = sub_value, sub_value being a stored (plain) value
splice_key(location, s, sub_selector, sub_value) ==
    setitem(location, <<s, sub_selector>>, sub_value)

RECURSIVE splice(_, _, _, _, _, _, _, _)
RECURSIVE splice_entry(_, _, _, _, _, _, _, _, _)
RECURSIVE splice_store(_, _, _, _, _, _, _, _, _, _)
\* The for loop of the Conf branch of __setitem__: the generator over the
\* dict of value (heap[val_id], read as it is at each step) and the
\* __setitem__ of each pair it yields.  used is the size of that dict when
\* the loop began: the dict iterator raises RuntimeError when the size has
\* changed, which happens when value shares its dict with self.
splice(heap, location, id, s, val_location, val_id, order, used) ==
    IF Cardinality(DOMAIN heap[val_id]) # used
    THEN [heap |-> heap, res |-> Raised("RuntimeError")]
    ELSE IF order = <<>> THEN [heap |-> heap, res |-> Done]
    ELSE splice_entry(heap, location, id, s, val_location, val_id, order, used,
                      Conf_match(Head(order), val_location, base_specificity, TRUE))

\* One turn of that loop, m being what _match gave for the selector
\* Head(order): the unpacking of m, then self[selector, sub_selector] =
\* sub_value.
splice_entry(heap, location, id, s, val_location, val_id, order, used, m) ==
    IF m.kind = "None" THEN [heap |-> heap, res |-> Raised("TypeError")]
    ELSE IF m.kind # "prefix" THEN [heap |-> heap, res |-> Raised(m.kind)]
    ELSE splice_store(heap, location, id, s, val_location, val_id, order, used,
                      heap[val_id][Head(order)],
                      splice_key(location, s, selector_path_join_valid(m.rest),
                                 heap[val_id][Head(order)]))

\* The end of that turn, r being what __setitem__ decided for sub_value: its
\* exception ends the loop, otherwise the entry is written and the loop goes
\* on.
splice_store(heap, location, id, s, val_location, val_id, order, used, sub_value, r) ==
    IF r.res.kind # "ok" THEN [heap |-> heap, res |-> r.res]
    ELSE splice([heap EXCEPT ![id] = DictSet(@, r.key, sub_value)],
                location, id, s, val_location, val_id, Tail(order), used)

\* Conf.__setitem__(selector, value) for a value that is a Conf object at
\* val_location on the dict heap[val_id], which iteritems() runs through in
\* the given order: the heap afterwards and the exception raised, if any.
setitem_conf(heap, location, id, selector, val_location, val_id, order) ==
    LET sp == get_selector_parts(location, selector) IN
    IF ~sp.ok THEN [heap |-> heap, res |-> Raised("InvalidSelector")]
    ELSE IF sp.parts = <<>> THEN [heap |-> heap, res |-> Raised("IndexError")]
    ELSE LET s == selector_path_join_valid(sp.parts) IN
         IF sp.parts[Len(sp.parts)] \in special_selectors
         THEN [heap |-> heap, res |-> Raised("SpecialSelector")]
         ELSE splice(heap, location, id, s, val_location, val_id, order,
                     Cardinality(DOMAIN heap[val_id]))

\* The values a caller hands to __setitem__, update and Conf(): a plain value,
\* or the Conf object of index conf.
Plain(v) == [conf |-> 0, plain |-> v]
Nested(n) == [conf |-> n, plain |-> ""]

\* The plain branch of __setitem__ on the dict heap[id], p being what the
\* checks of __setitem__ decided: the entry is written unless they raised.
setitem_plain(heap, id, p, value) ==
    [heap |-> IF p.res.kind = "ok"
              THEN [heap EXCEPT ![id] = DictSet(@, p.key, value)]
              ELSE heap,
     res |-> p.res]

\* self[s] = v as update runs it, v being a plain value or a Conf object of
\* objs.
update_set(heap, objs, location, id, s, v, iters) ==
    IF v.conf = 0
    THEN setitem_plain(heap, id, setitem(location, <<s>>, v.plain), v.plain)
    ELSE setitem_conf(heap, location, id, <<s>>, objs[v.conf].loc,
                      objs[v.conf].dict, iters[objs[v.conf].dict])

RECURSIVE update(_, _, _, _, _, _, _)
RECURSIVE update_rest(_, _, _, _, _, _, _)
\* Conf.update(opts) on the object at location with the dict heap[id]: the
\* pairs of opts are set in the given order; objs are the Conf objects and
\* iters gives, for each dict of the heap, the order iteritems() runs in.
update(heap, objs, location, id, opts, order, iters) ==
    IF order = <<>> THEN [heap |-> heap, res |-> Done]
    ELSE IF ~check_valid_selectors_str(Head(order))
    THEN [heap |-> heap, res |-> Raised("InvalidSelector")]
    ELSE update_rest(update_set(heap, objs, location, id, Head(order),
                                opts[Head(order)], iters),
                     objs, location, id, opts, Tail(order), iters)

\* Mutant of update_rest: the loop ends after the first pair.
update_rest_stop(r, objs, location, id, opts, order, iters) == r

\* The loop of update after one pair was set with the outcome r: an
\* exception ends it, the pairs set before it staying in the dict.
update_rest(r, objs, location, id, opts, order, iters) ==
    IF r.res.kind # "ok" THEN r
    ELSE update(r.heap, objs, location, id, opts, order, iters)

\* What Conf.__init__ leaves, r being the outcome of its update: the new dict
\* is reachable only through the new object, so it is gone when update raised.
conf_init_result(heap, id, r) ==
    IF r.res.kind = "ok" THEN [heap |-> r.heap, id |-> id, res |-> Done]
    ELSE [heap |-> heap, id |-> 0, res |-> r.res]

\* Mutant of conf_init: a Conf value among the values of conf_dict is not
\* copied, the new object is put on the dict of that value.
conf_init_shared(heap, objs, conf_dict, order, iters) ==
    LET ns == {conf_dict[s].conf : s \in DOMAIN conf_dict} \ {0} IN
    IF ns = {}
    THEN conf_init_result(heap, Len(heap) + 1,
                          update(Append(heap, EmptyDict), objs, <<>>, Len(heap) + 1,
                                 conf_dict, order, iters @@ ((Len(heap) + 1) :> <<>>)))
    ELSE [heap |-> heap, id |-> objs[CHOOSE n \in ns : TRUE].dict, res |-> Done]

\* Conf.__init__(conf_dict) with the default location and
\* _reuse_conf_dict=False: a dict of its own, filled by update.  id is 0 when
\* the constructor raises, and no object then exists.
conf_init(heap, objs, conf_dict, order, iters) ==
    conf_init_result(heap, Len(heap) + 1,
                     update(Append(heap, EmptyDict), objs, <<>>, Len(heap) + 1,
                            conf_dict, order, iters @@ ((Len(heap) + 1) :> <<>>)))

\* ------------------------------------------------------------------ inputs

S1(w) == <<w>>
S2(w1, w2) == <<w1, Slash, w2>>
WS(w) == <<Slash, Slash, w>>

\* selector arguments of __setitem__ (tuples of str)
SelectorInputs ==
    { <<S1("x")>>, <<S2("a", "x")>>, <<WS("x")>>, <<S2(".*", "x")>>,
      <<S1("name")>>, <<Wildcard>>, <<<<"x", Slash>>>> }

\* path arguments of __getitem__
PathInputs ==
    { <<S1("x")>>, <<S2("a", "x")>>, <<S2("ab", "x")>>,
      <<S1("name")>>, <<S1("location")>>, <<WS("x")>> }

\* name arguments of subconf
NameInputs == { <<S1("a")>>, <<S1(".*")>> }

\* the locations views are made at
Locations == { <<S1("a")>>, <<S1("a"), S1("b")>>, <<S1("x\n")>> }

\* ------------------------------------------------------------------ state

\* dicts: the heap of _conf_dict objects, each a function from selector str
\*        to value.
\* views: the Conf objects, each with its _location and the index of its
\*        _conf_dict; parent and name record the subconf call that made it.
\* last:  the most recent call (its receiver, argument, value, the key it
\*        wrote) and what it gave back, until the caller drops it.  obj is the
\*        Conf object handed in as a value, opts the mapping handed in.
\* call:  a direct call of _match (selector parts, path parts, mode, result,
\*        and the skipped_levels its wildcard branch returned at).

NoCall == [fn |-> "none", sel |-> NoParts, path |-> NoParts, pfx |-> FALSE,
           res |-> MatchNone, skipped |-> -1]

RootView == [loc |-> NoParts, dict |-> 1, parent |-> 0, name |-> NoParts]

Idle == [op |-> "idle", view |-> 0, arg |-> NoParts, value |-> "", obj |-> 0,
         opts |-> EmptyDict, key |-> NoStr, res |-> Done]

Init ==
    /\ dicts = <<EmptyDict>>
    /\ views = <<RootView>>
    /\ last = Idle
    /\ call = NoCall

\* view[selector] = value
SetItem(v, selector, value) ==
    LET id == views[v].dict
        d == dicts[id]
        r == setitem(views[v].loc, selector, value) IN
    /\ last.op = "idle"
    /\ r.res.kind = "ok" => (r.key \in DOMAIN d \/ Cardinality(DOMAIN d) < MaxEntries)
    /\ dicts' = IF r.res.kind = "ok"
                THEN [dicts EXCEPT ![id] = DictSet(d, r.key, value)]
                ELSE dicts
    /\ last' = [op |-> "set", view |-> v, arg |-> selector, value |-> value,
                obj |-> 0, opts |-> EmptyDict, key |-> r.key, res |-> r.res]
    /\ UNCHANGED <<views, call>>

\* view[path]; it may directly follow a __setitem__
GetItem(v, path) ==
    /\ last.op \in {"idle", "set"}
    /\ \E order \in IterOrders(dicts[views[v].dict]) :
          last' = [op |-> "get", view |-> v, arg |-> path, value |-> "", obj |-> 0,
                   opts |-> EmptyDict, key |-> NoStr,
                   res |-> getitem(views[v].loc, dicts[views[v].dict], order, path)]
    /\ UNCHANGED <<dicts, views, call>>

\* view.subconf(*name)
Subconf(v, name) ==
    LET sl == subconf_location(views[v].loc, name)
        made == conf_init_reuse(dicts, views[v].dict) IN
    /\ last.op = "idle"
    /\ IF sl.ok
       THEN /\ sl.parts \in Locations
            /\ \A i \in 1..Len(views) :
                  views[i].dict = views[v].dict => views[i].loc # sl.parts
            /\ dicts' = made.heap
            /\ views' = Append(views, [loc |-> sl.parts, dict |-> made.id,
                                       parent |-> v, name |-> name])
            /\ last' = [op |-> "subconf", view |-> v, arg |-> name, value |-> "",
                        obj |-> Len(views) + 1, opts |-> EmptyDict,
                        key |-> NoStr, res |-> Done]
       ELSE /\ last' = [op |-> "subconf", view |-> v, arg |-> name, value |-> "",
                        obj |-> 0, opts |-> EmptyDict,
                        key |-> NoStr, res |-> Raised("InvalidPath")]
            /\ UNCHANGED <<dicts, views>>
    /\ UNCHANGED call

\* The caller drops what the last call gave back.
Forget ==
    /\ last.op # "idle"
    /\ last' = Idle
    /\ UNCHANGED <<dicts, views, call>>

DoSetItem == \E v \in 1..Len(views), selector \in SelectorInputs, value \in Values :
                SetItem(v, selector, value)
DoGetItem == \E v \in 1..Len(views), path \in PathInputs : GetItem(v, path)
DoSubconf == \E v \in 1..Len(views), name \in NameInputs : Subconf(v, name)

Next == DoSetItem \/ DoGetItem \/ DoSubconf \/ Forget

Spec == Init /\ [][Next]_vars

\* ------------------------------------------------------------------ nested configurations

\* A mapping with the given pairs.
Pair(s, v) == s :> v

\* conf_dict arguments of Conf() holding plain values only
PlainMappings ==
    { Pair(S2("a", "x"), Plain("v1")),
      Pair(S2("a", "x"), Plain("v1")) @@ Pair(S1("b"), Plain("v2")) }

\* conf_dict arguments of Conf() in which a selector maps to the object n
NestedMappings(n) ==
    { Pair(Wildcard, Nested(n)),
      Pair(S1("a"), Nested(n)) @@ Pair(<<"a", Slash, "a", Slash, "x">>, Plain("v2")),
      Pair(S1("b"), Nested(n)) @@ Pair(S1("x"), Plain("v2")) }

\* selector arguments of __setitem__ where nested configurations are set:
\* 'x', '//', 'name', 'x/location', and the malformed '', '/', '/x', 'x/',
\* 'ab/', 'a///x'
NestedSelectorInputs ==
    { <<S1("x")>>, <<Wildcard>>, <<S1("name")>>,
      <<S2("x", "location")>>,
      <<NoStr>>, <<S1(Slash)>>, <<<<Slash, "x">>>>, <<<<"x", Slash>>>>,
      <<<<"ab", Slash>>>>, <<<<"a", Slash, Slash, Slash, "x">>>> }

\* path arguments of __getitem__ on deeper views: 'x', 'x/location', 'x/name', and the
\* non-paths '', '/x', 'x/', '//x', '.*', 'x\n'
ViewPathInputs ==
    { <<S1("x")>>, <<S2("x", "location")>>, <<S2("x", "name")>>,
      <<NoStr>>, <<<<Slash, "x">>>>, <<<<"x", Slash>>>>, <<WS("x")>>, <<S1(".*")>>,
      <<S1("x\n")>> }

\* name arguments of subconf on deeper views: 'a', 'b', 'a/b', ('a', 'b'), and the
\* non-paths '', '//a', 'a/', '.*', 'x\n'
ViewNameInputs ==
    { <<S1("a")>>, <<S1("b")>>, <<S2("a", "b")>>, <<S1("a"), S1("b")>>,
      <<NoStr>>, <<WS("a")>>, <<<<"a", Slash>>>>, <<S1(".*")>>, <<S1("x\n")>> }

\* Conf(conf_dict): conf_dict maps at most one selector to a Conf object, the
\* object n (0: none); order and sub are the orders in which iteritems() runs
\* over conf_dict and over the dict of n.
Construct(opts, n, order, sub) ==
    /\ last.op = "idle"
    /\ Len(views) < MaxObjs
    /\ \E r \in {conf_init(dicts, views, opts, order,
                            [i \in 1..Len(dicts) |->
                                IF n # 0 /\ i = views[n].dict THEN sub ELSE <<>>])} :
        /\ r.res.kind = "ok" => Cardinality(DOMAIN r.heap[r.id]) <= MaxEntries
        /\ dicts' = r.heap
        /\ views' = IF r.res.kind = "ok"
                    THEN Append(views, [loc |-> NoParts, dict |-> r.id,
                                        parent |-> 0, name |-> NoParts])
                    ELSE views
        /\ last' = [op |-> "construct", view |-> 0, arg |-> NoParts, value |-> "",
                    obj |-> IF r.res.kind = "ok" THEN Len(views) + 1 ELSE 0,
                    opts |-> opts, key |-> NoStr, res |-> r.res]
    /\ UNCHANGED call

\* view[selector] = the Conf object n, whose dict iteritems() runs through in
\* the given order
SetConf(v, selector, n, order) ==
    /\ last.op = "idle"
    /\ \E r \in {setitem_conf(dicts, views[v].loc, views[v].dict, selector,
                               views[n].loc, views[n].dict, order)} :
        /\ Cardinality(DOMAIN r.heap[views[v].dict]) <= MaxEntries
        /\ dicts' = r.heap
        /\ last' = [op |-> "setconf", view |-> v, arg |-> selector, value |-> "",
                    obj |-> n, opts |-> EmptyDict, key |-> NoStr, res |-> r.res]
    /\ UNCHANGED <<views, call>>

\* What an iteration handed out before it ended normally.
Yielded(items) == Result("items", "", NoStr, items, base_specificity)

\* dict(view._iter_location_restricted_entries()) as __str__ and __repr__ run
\* it: the generator is run to its end.
Iterate(v, order) ==
    /\ last.op = "idle"
    /\ \E r \in {iter_location_restricted_entries(dicts[views[v].dict],
                                                   views[v].loc, order)} :
        last' = [op |-> "iterate", view |-> v, arg |-> NoParts, value |-> "",
                 obj |-> 0, opts |-> EmptyDict, key |-> NoStr,
                 res |-> IF r.res.kind = "ok" THEN Yielded(r.items) ELSE r.res]
    /\ UNCHANGED <<dicts, views, call>>

DoConstruct ==
    \/ \E opts \in PlainMappings : \E order \in IterOrders(opts) :
          Construct(opts, 0, order, <<>>)
    \/ \E n \in 2..Len(views) : \E opts \in NestedMappings(n) :
          \E order \in IterOrders(opts), sub \in IterOrders(dicts[views[n].dict]) :
              Construct(opts, n, order, sub)
\* selector arguments of __setitem__ with a Conf object as the value
ConfSelectorInputs ==
    { <<S1("x")>>, <<Wildcard>>, <<S1(Slash)>>, <<S1("name")>>, <<<<"x", Slash>>>> }

\* The sets go to the first root and to its views; the objects built by Conf()
\* are handed in as values.
DoSetNested ==
    \E v \in 1..Len(views) :
        /\ views[v].dict = 1
        /\ \/ \E selector \in NestedSelectorInputs : SetItem(v, selector, "v1")
           \/ \E selector \in ConfSelectorInputs, n \in 2..Len(views) :
                 \E order \in IterOrders(dicts[views[n].dict]) :
                     SetConf(v, selector, n, order)
DoSubconfNested ==
    \E v \in 1..Len(views) :
        /\ Len(views) < MaxObjs
        /\ Subconf(v, <<S1("a")>>)
DoIterate ==
    \E v \in 1..Len(views) : \E order \in IterOrders(dicts[views[v].dict]) :
        Iterate(v, order)

NextNested == DoConstruct \/ DoSetNested \/ DoSubconfNested \/ DoIterate \/ Forget

SpecNested == Init /\ [][NextNested]_vars

\* ------------------------------------------------------------------ deeper views

\* selector arguments of __setitem__ on deeper views
ViewSelectorInputs == { <<S1("x")>>, <<S1("name")>> }

DoSetView == \E v \in 1..Len(views), selector \in ViewSelectorInputs :
                SetItem(v, selector, "v1")
DoGetView == \E v \in 1..Len(views), path \in ViewPathInputs : GetItem(v, path)
DoSubconfView == \E v \in 1..Len(views), name \in ViewNameInputs : Subconf(v, name)

NextViews == DoSetView \/ DoGetView \/ DoSubconfView \/ Forget

SpecViews == Init /\ [][NextViews]_vars

\* ------------------------------------------------------------------ reads and writes through views

\* default arguments of get: None, and a value that may also be stored
Defaults == {"None", "v1"}

\* selector arguments of __setitem__ given as one str or as several
\* fragments: 'x', 'a/x', ('a', 'x'), '//x', ('//', '//x'), ('//', 'x'),
\* '.*/x', and '//' for a set that fails
FragmentSelectorInputs ==
    { <<S1("x")>>, <<S2("a", "x")>>, <<S1("a"), S1("x")>>,
      <<WS("x")>>, <<Wildcard, WS("x")>>, <<Wildcard, S1("x")>>,
      <<S2(".*", "x")>>, <<Wildcard>> }

\* view.get(path, default)
Get(v, path, default) ==
    /\ last.op = "idle"
    /\ \E order \in IterOrders(dicts[views[v].dict]) :
          last' = [op |-> "getdefault", view |-> v, arg |-> path, value |-> default,
                   obj |-> 0, opts |-> EmptyDict, key |-> NoStr,
                   res |-> get(views[v].loc, dicts[views[v].dict], order, path,
                               default)]
    /\ views' = [views EXCEPT ![v].loc = get_path_parts_self_location(@, path)]
    /\ UNCHANGED <<dicts, call>>

DoSetFragments ==
    \E v \in 1..Len(views), selector \in FragmentSelectorInputs, value \in Values :
        SetItem(v, selector, value)
DoGet == \E v \in 1..Len(views), path \in PathInputs, default \in Defaults :
            Get(v, path, default)

NextAccess == DoSetFragments \/ DoGetItem \/ DoGet \/ DoSubconf \/ DoIterate \/ Forget

SpecAccess == Init /\ [][NextAccess]_vars

\* ------------------------------------------------------------------ update

\* opts arguments of update: {'x': v2, 'a/x': v1}, {'x': v2, 'name': v1} whose
\* second pair cannot be set, and {'//x': v2}
UpdateMappings ==
    { Pair(S1("x"), Plain("v2")) @@ Pair(S2("a", "x"), Plain("v1")),
      Pair(S1("x"), Plain("v2")) @@ Pair(S1("name"), Plain("v1")),
      Pair(WS("x"), Plain("v2")) }

\* view.update(opts), iteritems() running over opts in the given order, which
\* arg records
Update(v, opts, order) ==
    /\ last.op = "idle"
    /\ \E r \in {update(dicts, views, views[v].loc, views[v].dict, opts, order,
                         [i \in 1..Len(dicts) |-> <<>>])} :
        /\ Cardinality(DOMAIN r.heap[views[v].dict]) <= MaxEntries
        /\ dicts' = r.heap
        /\ last' = [op |-> "update", view |-> v, arg |-> order, value |-> "",
                    obj |-> 0, opts |-> opts, key |-> NoStr, res |-> r.res]
    /\ UNCHANGED <<views, call>>

DoUpdate ==
    \E v \in 1..Len(views) :
        /\ views[v].dict = 1
        /\ \E opts \in UpdateMappings : \E order \in IterOrders(opts) :
              Update(v, opts, order)

\* gets of 'x' and 'a/x' on what was built
DoGetBuilt ==
    \E v \in 1..Len(views), path \in {<<S1("x")>>, <<S2("a", "x")>>} :
        Get(v, path, "None")

NextUpdate ==
    \/ DoConstruct \/ DoSetNested \/ DoSubconfNested \/ DoUpdate
    \/ DoGetBuilt \/ DoIterate \/ Forget

SpecUpdate == Init /\ [][NextUpdate]_vars

\* ------------------------------------------------------------------ direct calls of _match

MatchSegments == {S1("a"), S1("x"), S1(".*"), Wildcard}
PathSegments == {S1("a"), S1("b"), S1("x")}

SeqsUpTo(S, n) == UNION {[1..k -> S] : k \in 0..n}

\* Selector part lists as _split_to_parts_valid gives them for a stored
\* selector: no two wildcards in a row, the last part not a wildcard.
MatchSelectors ==
    {sel \in SeqsUpTo(MatchSegments, MaxSelLen) :
        /\ sel # <<>>
        /\ sel[Len(sel)] # Wildcard
        /\ \A i \in 1..(Len(sel) - 1) : ~(sel[i] = Wildcard /\ sel[i + 1] = Wildcard)}

MatchPaths == SeqsUpTo(PathSegments, MaxPathLen)

\* The skipped_levels at which the wildcard branch of the outermost call
\* returns; -1 when that branch is not taken or its loop runs to the end.
top_skip(selector_parts, path_parts) ==
    IF path_parts # <<>> /\ Len(selector_parts) >= 2 /\ Head(selector_parts) = Wildcard
    THEN first_skip(selector_parts[2], path_parts)
    ELSE -1

InitMatch ==
    /\ dicts = <<EmptyDict>>
    /\ views = <<RootView>>
    /\ last = Idle
    /\ call \in {[fn |-> "pending", sel |-> sel, path |-> path, pfx |-> pfx,
                  res |-> MatchNone, skipped |-> -1] :
                     sel \in MatchSelectors, path \in MatchPaths, pfx \in BOOLEAN}

\* _match(selector_parts, path_parts, _base_specificity, do_prefix_match)
DoMatch ==
    /\ call.fn = "pending"
    /\ call' = [call EXCEPT !.fn = "match",
                            !.res = match(call.sel, call.path, base_specificity, call.pfx),
                            !.skipped = top_skip(call.sel, call.path)]
    /\ UNCHANGED <<dicts, views, last>>

NextMatch == DoMatch

SpecMatch == InitMatch /\ [][NextMatch]_vars

\* ------------------------------------------------------------------ direct calls of _match without wildcards

\* Selector segments (literals and the patterns '.*' and 'a|ab') and path
\* segments (identifiers).
PatternSegments == {S1("a"), S1("x"), S1(".*"), S1("a|ab")}
IdentifierSegments == {S1("a"), S1("b"), S1("x"), S1("ab")}

InitSegments ==
    /\ dicts = <<EmptyDict>>
    /\ views = <<RootView>>
    /\ last = Idle
    /\ call \in {[fn |-> "pending", sel |-> sel, path |-> path, pfx |-> FALSE,
                  res |-> MatchNone, skipped |-> -1] :
                     sel \in SeqsUpTo(PatternSegments, MaxSelLen - 1) \ {<<>>},
                     path \in SeqsUpTo(IdentifierSegments, MaxPathLen - 1)}

NextSegments == DoMatch

SpecSegments == InitSegments /\ [][NextSegments]_vars

\* ------------------------------------------------------------------ direct calls of split and join

StrTokens == {"a", "ab", Slash}

\* The strs of up to MaxStrLen tokens: no word directly follows a word.
SelectorStrings ==
    {s \in SeqsUpTo(StrTokens, MaxStrLen) :
        \A i \in 1..(Len(s) - 1) : s[i] = Slash \/ s[i + 1] = Slash}

\* What came back was a list of parts.
Parts(parts) == Result("parts", "", NoStr, parts, base_specificity)

InitSplit ==
    /\ dicts = <<EmptyDict>>
    /\ views = <<RootView>>
    /\ call = NoCall
    /\ last \in {[op |-> "pending", view |-> 1, arg |-> <<s>>, value |-> "", obj |-> 0,
                   opts |-> EmptyDict, key |-> NoStr, res |-> Done] :
                      s \in SelectorStrings}

\* check_valid_selectors([s]), then parts = _split_to_parts_valid([s]) and
\* _selector_path_join_valid(*parts): res holds the parts, key the joined str.
DoSplitJoin ==
    /\ last.op = "pending"
    /\ last' = IF check_valid_selectors(last.arg)
               THEN [last EXCEPT !.op = "splitjoin",
                                 !.res = Parts(split_to_parts_valid(last.arg)),
                                 !.key = selector_path_join_valid(
                                             split_to_parts_valid(last.arg))]
               ELSE [last EXCEPT !.op = "splitjoin",
                                 !.res = Raised("InvalidSelector")]
    /\ UNCHANGED <<dicts, views, call>>

NextSplit == DoSplitJoin

SpecSplit == InitSplit /\ [][NextSplit]_vars

\* ------------------------------------------------------------------ properties

\* The store and the absolute path of the __getitem__ recorded in last.
LastDict == dicts[views[last.view].dict]
LastPath == get_path_parts(views[last.view].loc, last.arg)

\* last is a __getitem__ of a valid path whose last segment is not reserved.
PlainGet ==
    /\ last.op = "get"
    /\ LastPath.ok
    /\ LastPath.parts # <<>>
    /\ LastPath.parts[Len(LastPath.parts)] \notin {S1("name"), S1("location")}

\* The stored selectors that match that path, and the specificity of each.
Matching ==
    {k \in DOMAIN LastDict :
        Conf_match(k, LastPath.parts, base_specificity, FALSE).kind = "spec"}
SpecificityOf(k) == Conf_match(k, LastPath.parts, base_specificity, FALSE).spec

\* (e1, p1) > (e2, p2) iff e1 > e2, or e1 = e2 and p1 > p2
MoreSpecific(s1, s2) == s1[1] > s2[1] \/ (s1[1] = s2[1] /\ s1[2] > s2[2])

\* The selectors of Matching that no other one beats.
TopMatching == {k \in Matching :
                   \A k2 \in Matching : ~MoreSpecific(SpecificityOf(k2), SpecificityOf(k))}

SeqRange(q) == {q[i] : i \in 1..Len(q)}

\* C1: a get of a valid non-reserved path returns the value of the only
\* matching selector, and with several matches the value of the one whose
\* specificity is strictly greater than that of every other match.
C1_MostSpecificWins ==
    PlainGet =>
        /\ \A k \in Matching : Matching = {k} => last.res = Returned(LastDict[k])
        /\ \A k \in Matching :
              (\A k2 \in Matching \ {k} :
                  MoreSpecific(SpecificityOf(k), SpecificityOf(k2)))
              => last.res = Returned(LastDict[k])

\* A get that chose among several matches, the pattern count deciding.
C1_Witness ==
    /\ PlainGet
    /\ Cardinality(Matching) >= 2
    /\ last.res.kind = "value"
    /\ \E k \in Matching, k2 \in Matching :
          /\ SpecificityOf(k)[1] = SpecificityOf(k2)[1]
          /\ SpecificityOf(k)[2] > SpecificityOf(k2)[2]
          /\ last.res.value = LastDict[k]
          /\ LastDict[k] # LastDict[k2]

\* C2: when two or more matching selectors share the maximal specificity the
\* get raises AmbiguousSpecificity naming exactly the tied selectors, whatever
\* the order in which the dict is run through.
C2_TieIsAmbiguous ==
    (PlainGet /\ Cardinality(TopMatching) >= 2) =>
        /\ last.res.kind = "AmbiguousSpecificity"
        /\ SeqRange(last.res.names) = TopMatching
        /\ Len(last.res.names) = Cardinality(TopMatching)
        /\ last.res.value \notin Values
        /\ \A order \in IterOrders(LastDict) :
              getitem(views[last.view].loc, LastDict, order, last.arg) = last.res

\* A get that found a tie between two selectors holding different values.
C2_Witness ==
    /\ PlainGet
    /\ last.res.kind = "AmbiguousSpecificity"
    /\ \E k \in TopMatching, k2 \in TopMatching : LastDict[k] # LastDict[k2]

\* C3: when exactly two stored selectors A and B match the path and A has
\* the greater exact count, the get returns A's value.
C3_ExactCountDecides ==
    PlainGet =>
        \A A \in Matching, B \in Matching :
            (Matching = {A, B} /\ SpecificityOf(A)[1] > SpecificityOf(B)[1])
            => last.res = Returned(LastDict[A])

\* A get among two matches where the winner has the smaller pattern count.
C3_Witness ==
    /\ PlainGet
    /\ \E A \in Matching, B \in Matching :
          /\ Matching = {A, B}
          /\ SpecificityOf(A)[1] > SpecificityOf(B)[1]
          /\ SpecificityOf(A)[2] < SpecificityOf(B)[2]
          /\ LastDict[A] # LastDict[B]
          /\ last.res = Returned(LastDict[A])

\* C4: view.set(p, v) followed by view.get(p), p a valid Path, returns v.
C4_RoundTrip ==
    [][(/\ last.op = "set"
        /\ last.res.kind = "ok"
        /\ check_valid_paths(last.arg)
        /\ last'.op = "get"
        /\ last'.view = last.view
        /\ last'.arg = last.arg)
       => last'.res = Returned(last.value)]_vars

\* Whether the selector str k has a wildcard segment.
HasWildcard(k) == Wildcard \in SeqRange(split_to_parts_valid(<<k>>))

\* C5: when the literal selector equal to the queried path and a selector
\* with a wildcard both match, the get returns the literal selector's value;
\* a path matched by one wildcard selector alone returns that one's value.
C5_ExactBeatsWildcard ==
    PlainGet =>
        LET literal == selector_path_join_valid(LastPath.parts) IN
        /\ (literal \in Matching /\ \E k \in Matching : HasWildcard(k))
              => last.res = Returned(LastDict[literal])
        /\ \A k \in Matching :
              (Matching = {k} /\ HasWildcard(k)) => last.res = Returned(LastDict[k])

\* The head of the selector of call is the wildcard, in full-match mode, on a
\* non-empty path.
WildcardCall ==
    /\ call.fn = "match"
    /\ ~call.pfx
    /\ call.path # <<>>
    /\ Head(call.sel) = Wildcard

PathFrom(path, k) == SubSeq(path, k + 1, Len(path))

\* The skip counts at which the rest of the selector matches the rest of the
\* path.
RestMatches ==
    {k \in 0..(Len(call.path) - 1) :
        match(Tail(call.sel), PathFrom(call.path, k), base_specificity, FALSE).kind = "spec"}

\* The skip counts at which the segment after the wildcard fully matches the
\* path segment.
HeadHits ==
    {k \in 0..(Len(call.path) - 1) : FullReMatch(call.sel[2], call.path[k + 1])}

\* C6 as stated: a selector with the wildcard at its head matches iff the rest
\* of the selector matches the path with some k leading segments removed, the
\* result being the one of the smallest such k; so '//x' matches every path
\* that ends in x.
C6_AnySkipMatches ==
    WildcardCall =>
        /\ (call.res.kind = "spec") <=> (RestMatches # {})
        /\ \A k \in RestMatches :
              (\A j \in RestMatches : k <= j)
              => call.res = match(Tail(call.sel), PathFrom(call.path, k),
                                  base_specificity, FALSE)
        /\ (call.sel = <<Wildcard, S1("x")>> /\ call.path[Len(call.path)] = S1("x"))
              => call.res.kind = "spec"

\* C6 amended: the wildcard skips to the first path segment that the selector
\* segment after it fully matches; the match succeeds iff there is such a
\* segment and the rest of the selector matches the path from there on, and
\* that is the result.  So '//x' matches exactly the paths whose only x is the
\* last segment.
C6_FirstHitDecides ==
    WildcardCall =>
        /\ HeadHits = {} => call.res = MatchNone
        /\ \A k \in HeadHits :
              (\A j \in HeadHits : k <= j)
              => call.res = match(Tail(call.sel), PathFrom(call.path, k),
                                  base_specificity, FALSE)
        /\ call.sel = <<Wildcard, S1("x")>>
              => ((call.res.kind = "spec") <=>
                    /\ call.path[Len(call.path)] = S1("x")
                    /\ \A j \in 1..(Len(call.path) - 1) : call.path[j] # S1("x"))

\* '//x/a' on 'b/x/a': the wildcard spans one segment and the rest matches.
C6_Witness ==
    /\ WildcardCall
    /\ call.sel = <<Wildcard, S1("x"), S1("a")>>
    /\ call.path = <<S1("b"), S1("x"), S1("a")>>
    /\ call.res = MatchSpec(<<2, 0>>)

\* C7: the wildcard stops at the leftmost path segment that the selector
\* segment after it fully matches, and the result is the one found there: no
\* larger skip count is tried.  '//x' matches 'a/x' and 'a/b/x'; on 'a/x/b/x'
\* the skip count is 1, not 3.
C7_WildcardMinimality ==
    (call.fn = "match" /\ call.path # <<>> /\ Head(call.sel) = Wildcard) =>
        /\ call.skipped >= 0 =>
              /\ FullReMatch(call.sel[2], call.path[call.skipped + 1])
              /\ \A j \in 0..(call.skipped - 1) :
                    ~FullReMatch(call.sel[2], call.path[j + 1])
              /\ call.res = match(Tail(call.sel), PathFrom(call.path, call.skipped),
                                  base_specificity, call.pfx)
        /\ call.skipped < 0 =>
              \A j \in 0..(Len(call.path) - 1) :
                    ~FullReMatch(call.sel[2], call.path[j + 1])
        /\ (call.sel = <<Wildcard, S1("x")>> /\ ~call.pfx) =>
              /\ call.path = <<S1("a"), S1("x")>> => call.res = MatchSpec(<<1, 0>>)
              /\ call.path = <<S1("a"), S1("b"), S1("x")>> => call.res = MatchSpec(<<1, 0>>)
              /\ call.path = <<S1("a"), S1("x"), S1("b"), S1("x")>> => call.skipped = 1

\* '//x' on 'a/x/b/x': the wildcard stopped at the first x.
C7_Witness ==
    /\ call.fn = "match"
    /\ ~call.pfx
    /\ call.sel = <<Wildcard, S1("x")>>
    /\ call.path = <<S1("a"), S1("x"), S1("b"), S1("x")>>
    /\ call.skipped = 1

\* The single str m/k made of the parts of m and of k.
JoinedArg(m, k) == <<JoinSlash(m \o k)>>

\* C8: a get of a valid non-reserved path k through the view root.subconf(m)
\* gives what root[m/k] gives, be it a value, KeyError or
\* AmbiguousSpecificity.
C8_ViewIsolation ==
    (PlainGet /\ views[last.view].parent = 1) =>
        \A order \in IterOrders(dicts[views[1].dict]) :
            getitem(views[1].loc, dicts[views[1].dict], order,
                    JoinedArg(views[last.view].name, last.arg)) = last.res

\* A get through a sub-view that ended in an ambiguity.
C8_Witness ==
    /\ PlainGet
    /\ views[last.view].parent = 1
    /\ last.res.kind = "AmbiguousSpecificity"

\* The absolute path of a get recorded in the call record c, joined.
AbsKey(vs, c) == selector_path_join_valid(get_path_parts(vs[c.view].loc, c.arg).parts)

\* C9: every view refers to the one store of the root; a set that returns
\* normally is in the store of every view, and a get that follows it through
\* any view on the absolute path just written gives what the setting view
\* itself gets for it.
C9_SharedStore ==
    /\ [](\A i \in 1..Len(views) : views[i].dict = views[1].dict)
    /\ [][(last'.op = "set" /\ last'.res.kind = "ok") =>
             \A j \in 1..Len(views') :
                 /\ last'.key \in DOMAIN dicts'[views'[j].dict]
                 /\ dicts'[views'[j].dict][last'.key] = last'.value]_vars
    /\ [][(/\ last.op = "set"
           /\ last.res.kind = "ok"
           /\ check_valid_paths(last.arg)
           /\ last'.op = "get"
           /\ AbsKey(views, last') = last.key)
          => \A order \in IterOrders(dicts[views[last.view].dict]) :
                last'.res = getitem(views[last.view].loc, dicts[views[last.view].dict],
                                    order, last.arg)]_vars

\* A set through the sub-view that the root's store holds.
C9_Witness ==
    /\ last.op = "set"
    /\ last.res.kind = "ok"
    /\ last.view # 1
    /\ last.key \in DOMAIN dicts[views[1].dict]
    /\ dicts[views[1].dict][last.key] = last.value
    /\ Cardinality(DOMAIN dicts[views[1].dict]) >= 2

\* C10: get('location') gives the '/'-joined location of the view ('' at the
\* root) and get('name') its last segment (an error at the root), whatever
\* the store holds; neither raises KeyError or AmbiguousSpecificity.
C10_SpecialSelectors ==
    last.op = "get" =>
        LET location == views[last.view].loc IN
        /\ last.arg = <<S1("location")>> => last.res = ReturnedStr(JoinSlash(location))
        /\ (last.arg = <<S1("name")>> /\ location # <<>>)
              => last.res = ReturnedStr(location[Len(location)])
        /\ (last.arg = <<S1("name")>> /\ location = <<>>)
              => last.res.kind = "IndexError"

\* get('name') through a sub-view of a store that holds entries.
C10_Witness ==
    /\ last.op = "get"
    /\ last.arg = <<S1("name")>>
    /\ views[last.view].loc # <<>>
    /\ last.res = ReturnedStr(S1("a"))
    /\ DOMAIN dicts[views[last.view].dict] # {}

\* ------------------------------------------------------------------ properties of views and nested configurations

\* The segments of the str arguments of a call, and the characters of each.
ArgSegments(arg) == TempParts(arg)

\* The location and the store of the receiver of the call in last.
LastLoc == views[last.view].loc

\* C11: on a view at location L, a get of p/location, p a non-empty valid
\* path, returns L and p joined by '/', and a get of p/name returns the last
\* segment of p: what view.subconf(p)['location'] and ['name'] return.
C11_SpecialBelowView ==
    LET segs == ArgSegments(last.arg)
        p == SubSeq(segs, 1, Len(segs) - 1)
        sub == subconf_location(LastLoc, p) IN
    (/\ last.op = "get"
     /\ check_valid_paths(last.arg)
     /\ Len(segs) >= 2
     /\ segs[Len(segs)] \in {S1("name"), S1("location")}) =>
        /\ segs[Len(segs)] = S1("location")
              => last.res = ReturnedStr(JoinSlash(LastLoc \o p))
        /\ segs[Len(segs)] = S1("name") => last.res = ReturnedStr(p[Len(p)])
        /\ last.res = getitem(sub.parts, LastDict, <<>>, <<segs[Len(segs)]>>)

\* The last segment of the selector a set was called with.
FinalSegment(selector) ==
    LET segs == ArgSegments(selector) IN
    IF segs = <<>> THEN NoStr ELSE segs[Len(segs)]

\* C12: a set, of a plain value or of a nested configuration, through any
\* view, on a selector whose final segment is 'name' or 'location' raises
\* the error of the special selectors and leaves every store as it was.
C12_ReservedKeysRejected ==
    [][(/\ last'.op \in {"set", "setconf"}
        /\ FinalSegment(last'.arg) \in {S1("name"), S1("location")})
       => (last'.res.kind = "SpecialSelector" /\ dicts' = dicts)]_vars

\* A nested configuration that holds entries, set on 'name' through a view
\* below the root.
C12_Witness ==
    /\ last.op = "setconf"
    /\ last.arg = <<S1("name")>>
    /\ LastLoc # <<>>
    /\ DOMAIN dicts[views[last.obj].dict] # {}
    /\ last.res.kind = "SpecialSelector"

\* The selector of a set in normal form: location and selector joined, runs
\* of slashes collapsed to '//'.
NormalForm(location, selector) == CollapseSlashes(JoinSlash(location \o selector))

EndsInWildcard(s) == Len(s) >= 2 /\ s[Len(s)] = Slash /\ s[Len(s) - 1] = Slash

\* C13: a set of a plain value on a selector whose normal form ends in '//'
\* raises and stores nothing; no key of any store ends in '//', also after a
\* nested configuration was set on such a selector.
C13_NoWildcardEnd ==
    /\ [](\A i \in 1..Len(dicts) : \A k \in DOMAIN dicts[i] : ~EndsInWildcard(k))
    /\ [][(/\ last'.op = "set"
           /\ EndsInWildcard(NormalForm(views[last'.view].loc, last'.arg)))
          => (last'.res.kind # "ok" /\ dicts' = dicts)]_vars

\* A nested configuration set on '//': its entries are stored under '//...'.
C13_Witness ==
    /\ last.op = "setconf"
    /\ last.arg = <<Wildcard>>
    /\ last.res.kind = "ok"
    /\ DOMAIN dicts[views[last.obj].dict] # {}
    /\ LastLoc = <<>>
    /\ \E k \in DOMAIN LastDict : IsPrefixSeq(Wildcard, k)

\* A selector part that is empty, begins or ends with a single '/', or has
\* three slashes in a row; c are its characters.
Malformed(c) ==
    \/ c = <<>>
    \/ c[1] = "/" /\ (Len(c) = 1 \/ c[2] # "/")
    \/ c[Len(c)] = "/" /\ (Len(c) = 1 \/ c[Len(c) - 1] # "/")
    \/ \E i \in 1..(Len(c) - 2) : c[i] = "/" /\ c[i + 1] = "/" /\ c[i + 2] = "/"

\* C14: a set whose selector has such a part fails in the validation of the
\* selector and stores nothing.
C14_MalformedRejected ==
    [][(/\ last'.op \in {"set", "setconf"}
        /\ \E i \in 1..Len(last'.arg) : Malformed(Chars(last'.arg[i])))
       => (last'.res.kind = "InvalidSelector" /\ dicts' = dicts)]_vars

\* A str that is identifiers separated by single slashes; c are its
\* characters.
RECURSIVE PlainPath(_, _)
PlainPath(c, afterLetter) ==
    IF c = <<>> THEN afterLetter
    ELSE IF Head(c) = "/" THEN afterLetter /\ PlainPath(Tail(c), FALSE)
    ELSE Head(c) \in WordCharSet /\ PlainPath(Tail(c), TRUE)

\* C15: a get or a subconf with a part that is not a path fails with the
\* error of the path validation, makes no view and leaves the stores alone.
C15_OnlyPaths ==
    [][(/\ last'.op \in {"get", "subconf"}
        /\ \E i \in 1..Len(last'.arg) : ~PlainPath(Chars(last'.arg[i]), FALSE))
       => (last'.res.kind = "InvalidPath" /\ views' = views /\ dicts' = dicts)]_vars

\* C16: the view that subconf(n1, ..., nk) makes of a view at L is on the same
\* store, at L followed by the segments of the names; one slash-joined name,
\* several names and chained calls give the same location; no call changes
\* an existing view.
C16_SubconfLocation ==
    /\ [](\A i \in 1..Len(views) : views[i].parent > 0 =>
            LET parent == views[views[i].parent]
                name == views[i].name IN
            /\ views[i].dict = parent.dict
            /\ views[i].loc = parent.loc \o ArgSegments(name)
            /\ subconf_location(parent.loc, <<JoinSlash(name)>>).parts = views[i].loc
            /\ subconf_location(parent.loc, ArgSegments(name)).parts = views[i].loc
            /\ parent.parent > 0 =>
                  LET grand == views[parent.parent] IN
                  /\ subconf_location(grand.loc, parent.name \o name).parts = views[i].loc
                  /\ subconf_location(grand.loc, <<JoinSlash(parent.name \o name)>>).parts
                        = views[i].loc)
    /\ [][\A i \in 1..Len(views) : views'[i] = views[i]]_vars

\* root.subconf('a').subconf('b'): a view at a/b made of the view at a.
C16_Witness ==
    \E i \in 1..Len(views) :
        /\ views[i].parent > 1
        /\ views[i].loc = <<S1("a"), S1("b")>>
        /\ views[views[i].parent].loc = <<S1("a")>>

\* The store of the object that the Conf() call in last returned.
BuiltStore == dicts[views[last.obj].dict]

\* joinValid(s, k)
FlatKey(s, k) == CollapseSlashes(JoinSlash(<<s, k>>))

\* The keys under which the pair of selector s of the mapping opts is
\* stored, and the values the pairs of opts bring for a key.
FlatKeys(opts, s) ==
    IF opts[s].conf = 0 THEN {CollapseSlashes(s)}
    ELSE {FlatKey(s, k) : k \in DOMAIN dicts[views[opts[s].conf].dict]}
FlatValues(opts, key) ==
    {opts[s].plain : s \in {t \in DOMAIN opts : opts[t].conf = 0 /\ CollapseSlashes(t) = key}}
    \cup UNION {LET N == dicts[views[opts[s].conf].dict] IN
                {N[k] : k \in {j \in DOMAIN N : FlatKey(s, j) = key}} :
                    s \in {t \in DOMAIN opts : opts[t].conf # 0}}

\* Conf() returned an object for a mapping whose nested values are roots.
BuiltFromRoots ==
    /\ last.op = "construct"
    /\ last.res.kind = "ok"
    /\ \A s \in DOMAIN last.opts :
          last.opts[s].conf # 0 => views[last.opts[s].conf].loc = <<>>

\* C17 as stated: in the store of a root built from a mapping, every entry
\* (k, v) of a nested root N given under selector s is found under
\* joinValid(s, k) with value v, s itself is no key, and every plain pair is
\* found under its normalized selector.
C17_Flattening ==
    BuiltFromRoots =>
        \A s \in DOMAIN last.opts :
            IF last.opts[s].conf = 0
            THEN /\ CollapseSlashes(s) \in DOMAIN BuiltStore
                 /\ BuiltStore[CollapseSlashes(s)] = last.opts[s].plain
            ELSE LET N == dicts[views[last.opts[s].conf].dict] IN
                 /\ s \notin DOMAIN BuiltStore
                 /\ \A k \in DOMAIN N :
                       /\ FlatKey(s, k) \in DOMAIN BuiltStore
                       /\ BuiltStore[FlatKey(s, k)] = N[k]

\* C17 amended: the keys of the store are the keys the pairs flatten to, s
\* itself is no key, and each key holds a value that a pair brings for it:
\* the value of the claim when one pair only flattens to the key, and the
\* value of one of them when several do.
C17_FlatteningLastWins ==
    BuiltFromRoots =>
        /\ DOMAIN BuiltStore = UNION {FlatKeys(last.opts, s) : s \in DOMAIN last.opts}
        /\ \A key \in DOMAIN BuiltStore : BuiltStore[key] \in FlatValues(last.opts, key)
        /\ \A s \in DOMAIN last.opts : last.opts[s].conf # 0 => s \notin DOMAIN BuiltStore

\* Conf({'b': N, 'x': v}) with N a root that holds an entry: two keys, one
\* of them flattened.
C17_Witness ==
    /\ BuiltFromRoots
    /\ \E s \in DOMAIN last.opts, t \in DOMAIN last.opts :
          /\ last.opts[s].conf # 0
          /\ last.opts[t].conf = 0
          /\ DOMAIN dicts[views[last.opts[s].conf].dict] # {}
          /\ FlatKeys(last.opts, s) \cap FlatKeys(last.opts, t) = {}
          /\ Cardinality(DOMAIN BuiltStore) = 2

\* The key join(L, s, k)
SplicedKey(location, selector, k) == CollapseSlashes(JoinSlash(location \o selector \o <<k>>))

\* C18: a set through a view at L writes a plain value under join(L, s), and
\* each entry (k, w) of a nested root under join(L, s, k); no other key is
\* made or changed.
C18_LocationOnce ==
    [][LET id == views[last'.view].dict
           L == views[last'.view].loc IN
       /\ (last'.op = "set" /\ last'.res.kind = "ok") =>
             dicts' = [dicts EXCEPT ![id] = DictSet(@, NormalForm(L, last'.arg), last'.value)]
       /\ (last'.op = "setconf" /\ last'.res.kind = "ok" /\ views[last'.obj].loc = <<>>) =>
             LET N == dicts[views[last'.obj].dict]
                 written == {SplicedKey(L, last'.arg, k) : k \in DOMAIN N} IN
             /\ DOMAIN dicts'[id] = DOMAIN dicts[id] \cup written
             /\ \A k \in DOMAIN N : dicts'[id][SplicedKey(L, last'.arg, k)] = N[k]
             /\ \A key \in DOMAIN dicts[id] \ written : dicts'[id][key] = dicts[id][key]
             /\ \A j \in 1..Len(dicts) : j # id => dicts'[j] = dicts[j]]_vars

\* C19: a set or a Conf() that is handed a configuration whose location is
\* not empty raises and inserts nothing.
C19_LocatedValueRejected ==
    [][/\ (last'.op = "setconf" /\ views[last'.obj].loc # <<>>) =>
             (last'.res.kind # "ok" /\ dicts' = dicts)
       /\ (/\ last'.op = "construct"
           /\ \E s \in DOMAIN last'.opts :
                 last'.opts[s].conf # 0 /\ views[last'.opts[s].conf].loc # <<>>) =>
             (last'.res.kind # "ok" /\ dicts' = dicts /\ views' = views)]_vars

\* The stored selectors whose prefix match against the location of the
\* receiver succeeds, and what is left of each.
ActiveBelow ==
    {k \in DOMAIN LastDict :
        Conf_match(k, LastLoc, base_specificity, TRUE).kind = "prefix"}
SuffixBelow(k) ==
    CollapseSlashes(JoinSlash(Conf_match(k, LastLoc, base_specificity, TRUE).rest))

\* C20: an iteration over a view ends normally for every store; it yields
\* one pair (suffix, value) for each stored selector whose prefix match
\* against the location succeeds, and none for the others.
C20_IterateSkips ==
    last.op = "iterate" =>
        /\ last.res.kind = "items"
        /\ Len(last.res.names) = Cardinality(ActiveBelow)
        /\ \A k \in ActiveBelow :
              \E i \in 1..Len(last.res.names) :
                  last.res.names[i] = [suffix |-> SuffixBelow(k), entry |-> LastDict[k]]

\* ------------------------------------------------------------------ properties of errors and effects

\* last is a get(path, default) of a valid path whose last segment is not
\* reserved.
PlainGetDefault ==
    /\ last.op = "getdefault"
    /\ LastPath.ok
    /\ LastPath.parts # <<>>
    /\ LastPath.parts[Len(LastPath.parts)] \notin {S1("name"), S1("location")}

\* C21: a get of a valid non-reserved path raises KeyError iff no stored
\* selector matches the absolute path; get(path, default) returns the default
\* in exactly that case, the value of the single most specific match when
\* there is one, and raises AmbiguousSpecificity on a tie.
C21_KeyNotFoundOrDefault ==
    /\ PlainGet => ((last.res.kind = "KeyError") <=> (Matching = {}))
    /\ PlainGetDefault =>
          /\ Matching = {} => last.res = Returned(last.value)
          /\ (Matching # {} /\ last.value = "None") => last.res # Returned(last.value)
          /\ \A k \in TopMatching :
                TopMatching = {k} => last.res = Returned(LastDict[k])
          /\ Cardinality(TopMatching) >= 2 => last.res.kind = "AmbiguousSpecificity"

\* get(path, None) through a view on a store that holds entries, none of
\* which matches: None comes back.
C21_Witness ==
    /\ PlainGetDefault
    /\ Matching = {}
    /\ Cardinality(DOMAIN LastDict) = 2
    /\ LastLoc # <<>>
    /\ last.value = "None"
    /\ last.res = Returned("None")

\* C22: a set that raises, of a plain value or of a nested configuration
\* spliced entry by entry, leaves every store as it was before the call.
C22_FailedSetAtomic ==
    [][(last'.op \in {"set", "setconf"} /\ last'.res.kind # "ok")
       => dicts' = dicts]_vars

\* C23: get, get with a default, subconf and iterate, whether they return or
\* raise, leave every store as it was and change no existing view; subconf
\* only adds the view it returns.
C23_ReadsChangeNothing ==
    [][last'.op \in {"get", "getdefault", "subconf", "iterate"} =>
          /\ dicts' = dicts
          /\ Len(views') >= Len(views)
          /\ \A i \in 1..Len(views) : views'[i] = views[i]
          /\ last'.op # "subconf" => views' = views]_vars

\* A get with a default that ended in AmbiguousSpecificity, through a view
\* below the root.
C23_Witness ==
    /\ last.op = "getdefault"
    /\ last.res.kind = "AmbiguousSpecificity"
    /\ LastLoc # <<>>
    /\ Cardinality(DOMAIN LastDict) = 2

\* C24: a set that returns writes one entry, under the normal form of its
\* selector (location and fragments joined by '/', runs of slashes collapsed
\* to '//') and with its value, replacing what an earlier set left under that
\* normal form; every entry under another key stays as it was, also when
\* both selectors match the same paths.
C24_LastWriteWins ==
    [][(last'.op = "set" /\ last'.res.kind = "ok") =>
          LET id == views[last'.view].dict
              key == NormalForm(views[last'.view].loc, last'.arg) IN
          /\ last'.key = key
          /\ DOMAIN dicts'[id] = DOMAIN dicts[id] \cup {key}
          /\ dicts'[id][key] = last'.value
          /\ \A k \in DOMAIN dicts[id] \ {key} : dicts'[id][k] = dicts[id][k]
          /\ \A j \in 1..Len(dicts) : j # id => dicts'[j] = dicts[j]]_vars

\* ('//', '//x') was set: the entry is under '//x', next to the entry of 'x',
\* which matches the path x as well and holds another value.
C24_Witness ==
    /\ last.op = "set"
    /\ last.res.kind = "ok"
    /\ last.arg = <<Wildcard, WS("x")>>
    /\ LastLoc = <<>>
    /\ WS("x") \in DOMAIN LastDict
    /\ S1("x") \in DOMAIN LastDict
    /\ LastDict[WS("x")] = last.value
    /\ LastDict[S1("x")] # last.value

RECURSIVE SquashRuns(_, _)
\* s with every run of two or more slashes made '//'; run is the number of
\* slashes just before s.
SquashRuns(s, run) ==
    IF s = <<>> THEN <<>>
    ELSE IF Head(s) # Slash THEN <<Head(s)>> \o SquashRuns(Tail(s), 0)
    ELSE IF run >= 2 THEN SquashRuns(Tail(s), run + 1)
    ELSE <<Slash>> \o SquashRuns(Tail(s), run + 1)

\* C25: for a selector str s that check_valid_selectors accepts, joining the
\* parts that splitting s gives yields s with its runs of slashes collapsed
\* to '//' and nothing else changed; the joined str has no three slashes in a
\* row; splitting it gives the same parts; no two wildcard parts are
\* adjacent.
C25_SplitJoinRoundTrip ==
    (last.op = "splitjoin" /\ last.res.kind = "parts") =>
        LET parts == last.res.names IN
        /\ last.key = SquashRuns(last.arg[1], 0)
        /\ ~ContainsSeq(last.key, <<Slash, Slash, Slash>>)
        /\ split_to_parts_valid(<<last.key>>) = parts
        /\ \A i \in 1..(Len(parts) - 1) :
              ~(parts[i] = Wildcard /\ parts[i + 1] = Wildcard)

\* ------------------------------------------------------------------ properties of the matcher in prefix mode

\* The head of the selector of call is the wildcard, in prefix mode, on a
\* non-empty location.
WildcardPrefixCall ==
    /\ call.fn = "match"
    /\ call.pfx
    /\ call.path # <<>>
    /\ Head(call.sel) = Wildcard

\* The paths that continue the path of call by up to two segments.
PathsBelow == {call.path \o q : q \in SeqsUpTo(PathSegments, 2)}

\* C26 as stated: in prefix mode a selector with the wildcard at its head
\* never gives None; when no skip count lets the rest of the selector match
\* the rest of the location, the whole selector comes back as what remains,
\* with the specificity unchanged.
C26_PrefixNeverNoMatch ==
    WildcardPrefixCall =>
        /\ call.res.kind # "None"
        /\ (\A k \in 0..(Len(call.path) - 1) :
               match(Tail(call.sel), PathFrom(call.path, k), base_specificity,
                     TRUE).kind = "None")
              => (/\ call.res.kind = "prefix"
                  /\ call.res.rest = call.sel
                  /\ call.res.spec = base_specificity)

\* C26 amended: when the segment after the wildcard fully matches no segment
\* of the location, the whole selector comes back as what remains, with the
\* specificity unchanged; otherwise the result is that of the rest of the
\* selector on the location from the first such segment on, which may be
\* None.  A selector that matches the location or a path below it is always
\* given as still active.
C26_PrefixFirstHit ==
    WildcardPrefixCall =>
        /\ HeadHits = {} => (/\ call.res.kind = "prefix"
                             /\ call.res.rest = call.sel
                             /\ call.res.spec = base_specificity)
        /\ \A k \in HeadHits :
              (\A j \in HeadHits : k <= j)
              => call.res = match(Tail(call.sel), PathFrom(call.path, k),
                                  base_specificity, TRUE)
        /\ \A p \in PathsBelow :
              match(call.sel, p, base_specificity, FALSE).kind = "spec"
              => call.res.kind = "prefix"

\* '//x/a' against the location x/b: the wildcard stops at x, a does not
\* match b, and the result is None.
C26_Witness ==
    /\ WildcardPrefixCall
    /\ call.sel = <<Wildcard, S1("x"), S1("a")>>
    /\ call.path = <<S1("x"), S1("b")>>
    /\ call.res = MatchNone

\* ------------------------------------------------------------------ properties of selectors without wildcards

\* The selector of call has no wildcard segment and is matched in full mode.
PlainSelectorCall ==
    /\ call.fn = "match"
    /\ ~call.pfx
    /\ Wildcard \notin SeqRange(call.sel)

\* The regular expression s matches the whole path segment p: '.*' matches
\* every segment without a newline, 'a|ab' matches a and ab, a literal
\* matches itself.
SegmentFits(s, p) ==
    IF s = S1(".*") THEN "\n" \notin SeqRange(Chars(p))
    ELSE IF s = S1("a|ab") THEN p \in {S1("a"), S1("ab")}
    ELSE s = p

\* Every selector segment of call fits the path segment at its position, and
\* there are as many of the ones as of the others.
SegmentWiseFit ==
    /\ Len(call.sel) = Len(call.path)
    /\ \A i \in 1..Len(call.sel) : SegmentFits(call.sel[i], call.path[i])

\* The positions at which the selector segment is the path segment.
EqualPositions == {i \in 1..Len(call.sel) : call.sel[i] = call.path[i]}

\* C27: a selector without wildcards matches a path iff both have as many
\* segments and each selector segment fully matches the path segment at its
\* position; the specificity is the base specificity plus (the number of
\* positions with equal strs, the number of the other positions).
C27_SegmentWise ==
    PlainSelectorCall =>
        /\ (call.res.kind = "spec") <=> SegmentWiseFit
        /\ ~SegmentWiseFit => call.res = MatchNone
        /\ SegmentWiseFit =>
              /\ call.res = MatchSpec(<<Cardinality(EqualPositions),
                                        Len(call.sel) - Cardinality(EqualPositions)>>)
              /\ match(call.sel, call.path, <<1, 2>>, FALSE)
                    = MatchSpec(<<1 + Cardinality(EqualPositions),
                                  2 + Len(call.sel) - Cardinality(EqualPositions)>>)

\* ------------------------------------------------------------------ properties of stores built through the interface

\* The paths and locations the stored selectors are matched against.
ProbePaths == SeqsUpTo({S1("a"), S1("x")}, 2)

\* The parts of the stored selector k as Conf._match splits it.
StoredParts(k) == split_to_parts_valid(<<k>>)

\* C28: in every store built by construct, set, update and subconf calls, no
\* stored selector ends in the wildcard or has two wildcard segments in a
\* row, so the assert of the wildcard branch of _match holds in every match
\* of a stored selector, in full and in prefix mode, and no get or iteration
\* ends in AssertionError.
C28_StoredSelectorsWellFormed ==
    /\ \A i \in 1..Len(dicts) : \A k \in DOMAIN dicts[i] :
          LET parts == StoredParts(k) IN
          /\ ~EndsInWildcard(k)
          /\ ~ContainsSeq(k, <<Slash, Slash, Slash>>)
          /\ parts # <<>>
          /\ parts[Len(parts)] # Wildcard
          /\ \A j \in 1..(Len(parts) - 1) :
                ~(parts[j] = Wildcard /\ parts[j + 1] = Wildcard)
          /\ \A path \in ProbePaths, pfx \in BOOLEAN :
                match(parts, path, base_specificity, pfx).kind # "AssertionError"
    /\ last.op \in {"get", "getdefault", "iterate"} => last.res.kind # "AssertionError"

\* An iteration over a store that an update and a set of a nested
\* configuration on '//' filled: it holds '//x' and a key spliced below '//'.
C28_Witness ==
    /\ last.op = "iterate"
    /\ WS("x") \in DOMAIN LastDict
    /\ \E k \in DOMAIN LastDict : k # WS("x") /\ IsPrefixSeq(Wildcard, k)

RECURSIVE SetsInTurn(_, _, _, _)
\* The store d after the pairs of opts were set one by one through a view at
\* location, in the given order, up to the first set that raises; res is
\* what that set raised.
SetsInTurn(d, location, opts, order) ==
    IF order = <<>> THEN [store |-> d, res |-> Done]
    ELSE LET p == setitem(location, <<Head(order)>>, opts[Head(order)].plain) IN
         IF p.res.kind # "ok" THEN [store |-> d, res |-> p.res]
         ELSE SetsInTurn(DictSet(d, p.key, opts[Head(order)].plain), location,
                         opts, Tail(order))

\* C29: update(opts) leaves the store that setting the pairs one by one, in
\* the order of iteration, leaves: all of them when every set returns, and
\* the ones before the first failing set when one raises, whose exception
\* update raises; no other store changes.
C29_UpdateIsSetsInTurn ==
    [][last'.op = "update" =>
          LET id == views[last'.view].dict
              sets == SetsInTurn(dicts[id], views[last'.view].loc, last'.opts,
                                 last'.arg) IN
          /\ dicts'[id] = sets.store
          /\ last'.res = sets.res
          /\ \A j \in 1..Len(dicts) : j # id => dicts'[j] = dicts[j]
          /\ last'.res.kind = "ok" =>
                \A s \in DOMAIN last'.opts :
                    \E k \in DOMAIN dicts'[id] : k = NormalForm(views[last'.view].loc, <<s>>)]_vars

\* update({'x': v2, 'name': v1}) through the root: 'x' was set before 'name'
\* made the update fail, and stays.
C29_Witness ==
    /\ last.op = "update"
    /\ last.arg = <<S1("x"), S1("name")>>
    /\ last.res.kind = "SpecialSelector"
    /\ LastLoc = <<>>
    /\ DOMAIN LastDict = {S1("x")}
    /\ LastDict[S1("x")] = "v2"

\* ------------------------------------------------------------------ sets after a splice

\* selector arguments of the plain sets around a splice: 'x', 'a/x'
SpliceSelectorInputs == { <<S1("x")>>, <<S2("a", "x")>> }

\* selector arguments of the sets whose value is a Conf object: 'a', 'x'
SpliceConfSelectorInputs == { <<S1("a")>>, <<S1("x")>> }

\* The object the last call spliced into: the receiver of the set, or the
\* object Conf() built.
SplicedInto == IF last.op = "construct" THEN last.obj ELSE last.view

\* The Conf objects the last call took as values.
SplicedValues ==
    IF last.op = "construct"
    THEN {last.opts[s].conf : s \in DOMAIN last.opts} \ {0}
    ELSE {last.obj}

\* conf_dict arguments of Conf() around a splice: {'a/x': v1}, and {'x': n}
\* for a Conf object n
SpliceMappings(n) ==
    { Pair(S2("a", "x"), Plain("v1")) } \cup
    (IF n = 0 THEN {} ELSE { Pair(S1("x"), Nested(n)) })

DoConstructSplice ==
    \E n \in {0} \cup 2..Len(views) : \E opts \in SpliceMappings(n) :
        \E order \in IterOrders(opts),
           sub \in IF n = 0 THEN {<<>>} ELSE IterOrders(dicts[views[n].dict]) :
            Construct(opts, n, order, sub)

\* A set of a plain value or of a Conf object, through the first root or a
\* view of it; the value is a view of that root or an object built by Conf().
DoSetSplice ==
    \E v \in 1..Len(views) :
        /\ views[v].dict = 1
        /\ \/ \E selector \in SpliceSelectorInputs : SetItem(v, selector, "v1")
           \/ \E selector \in SpliceConfSelectorInputs, n \in 2..Len(views) :
                 \E order \in IterOrders(dicts[views[n].dict]) :
                     SetConf(v, selector, n, order)

\* view[selector] = value as the statement that follows a Conf() or a set that
\* took a Conf object as a value and returned.
SetSpliced(v, selector, value) ==
    /\ last.op \in {"construct", "setconf"}
    /\ last.res.kind = "ok"
    /\ SplicedValues # {}
    /\ \E p \in {setitem(views[v].loc, selector, value)} :
        \E r \in {setitem_plain(dicts, views[v].dict, p, value)} :
            /\ Cardinality(DOMAIN r.heap[views[v].dict]) <= MaxEntries
            /\ dicts' = r.heap
            /\ last' = [op |-> "set", view |-> v, arg |-> selector, value |-> value,
                        obj |-> 0, opts |-> EmptyDict, key |-> p.key, res |-> r.res]
    /\ UNCHANGED <<views, call>>

DoSetSpliced ==
    \E v \in 1..Len(views), selector \in SpliceSelectorInputs :
        SetSpliced(v, selector, "v2")

NextSplice == DoConstructSplice \/ DoSetSplice \/ DoSubconfNested \/ DoSetSpliced \/ Forget

SpecSplice == Init /\ [][NextSplice]_vars

\* ------------------------------------------------------------------ properties of splicing

RECURSIVE IsViewOf(_, _)
\* v is the object w or was made from it by subconf calls.
IsViewOf(v, w) ==
    \/ v = w
    \/ views[v].parent # 0 /\ IsViewOf(views[v].parent, w)

\* paths read back around a splice: 'x', 'a/x', 'x/a/x', 'a/a/x'
SplicePaths ==
    { <<S1("x")>>, <<S2("a", "x")>>, <<<<"x", Slash, "a", Slash, "x">>>>,
      <<<<"a", Slash, "a", Slash, "x">>>> }

\* What w[path] can give on the heap, over the orders the dict can iterate in.
GetsOn(heap, w, path) ==
    {getitem(views[w].loc, heap[views[w].dict], order, path) :
        order \in IterOrders(heap[views[w].dict])}

\* The step leaves every get through w as it was.
GetsKept(w) == \A path \in SplicePaths : GetsOn(dicts', w, path) = GetsOn(dicts, w, path)

\* The step is a set that follows a returned splice.
SetAfterSplice ==
    /\ last.op \in {"construct", "setconf"}
    /\ last.res.kind = "ok"
    /\ last'.op = "set"

====
